---------------------------- MODULE Spec2Model ----------------------------
(***************************************************************************)
(* Cherry OpenFlow controller.                                             *)
(*                                                                         *)
(*   Part I   l2switch: ProcessPacket / ProcessEvent and the messages they *)
(*            hand to Device.SendMessage.                                  *)
(*   Part II  device.Manager: the per-connection handlers, Run, Cancel and *)
(*            the registry Pool.                                           *)
(*                                                                         *)
(* A 64-bit word (cookie, cookie mask) is the set of the indices of its 1  *)
(* bits, so 0x1 << 63 is {63} and bitwise AND is intersection.             *)
(***************************************************************************)
EXTENDS Integers, Sequences, FiniteSets, TLC

VARIABLES
    phase,      \* l2switch: "idle", "pending" (a call is dispatched), "done"
    call,       \* l2switch: the arguments of the dispatched call
    sent,       \* l2switch: the messages handed to SendMessage by the call, in order
    ret,        \* l2switch: what the call returned
    mgr,        \* device: the Manager of every connection
    pool,       \* device: the registry Pool, (DPID, AuxID) -> Manager
    xcvr,       \* device: the transceiver's position in the handshake
    hcall,      \* device: the handler or send path that ran last and its message
    wire,       \* device: the messages it handed to the transceiver
    sender      \* device: the task calling a send path of a Manager

policyVars == <<phase, call, sent, ret>>
deviceVars == <<mgr, pool, xcvr, hcall, wire, sender>>
vars == <<phase, call, sent, ret, mgr, pool, xcvr, hcall, wire, sender>>

---------------------------------------------------------------------------
(* Bounds *)

NumDevices == 3
NumHosts == 2
MaxHops == 2
NumSessions == 2
MaxPorts == 2
MaxDPID == 1

(* Program constants *)

OFPPC_PORT_DOWN == 1
OFPPC_NO_STP == 2
OFPPS_LINK_DOWN == 1
IdleTimeout == 30
Priority == 10
TableAll == 255
CookieMaskShift == 63

---------------------------------------------------------------------------
(* Words *)

WordBits == 0..63

\* x << n on a 64-bit word
Shl(word, n) == {b + n : b \in word} \cap WordBits

\* x & y on 64-bit words
WordAnd(x, y) == x \cap y

RECURSIVE BitAnd(_, _)
\* x & y on naturals
BitAnd(x, y) ==
    IF x = 0 \/ y = 0 THEN 0
    ELSE (IF x % 2 = 1 /\ y % 2 = 1 THEN 1 ELSE 0) + 2 * BitAnd(x \div 2, y \div 2)

RECURSIVE BitOr(_, _)
\* x | y on naturals
BitOr(x, y) ==
    IF x = 0 THEN y
    ELSE IF y = 0 THEN x
    ELSE (IF x % 2 = 1 \/ y % 2 = 1 THEN 1 ELSE 0) + 2 * BitOr(x \div 2, y \div 2)

---------------------------------------------------------------------------
(* Part I: the topology the policy is handed *)

Devices == 1..NumDevices

HostPorts == {3, 5}

\* the port of device a on its link to device b
TrunkPort(a, b) == 8 + b

DevicePorts(d) == HostPorts \cup {TrunkPort(d, b) : b \in Devices \ {d}}

\* the port numbers a PORT_STATUS may name: the device's, or one it does not have
StatusPorts(d) == DevicePorts(d) \cup {99}

Port(d, n) == [device |-> d, number |-> n]

MAC(i) == <<0, 0, 0, 0, 0, i>>

BroadcastMAC == <<255, 255, 255, 255, 255, 255>>

HostMACs == {MAC(i) : i \in 1..NumHosts}

EtherTypes == {2048, 2054}

\* network.Device.FlowTableID: the table the device forwards from
FlowTableID(d) == d % 2

\* finder.Node: nil, or the port a MAC was learned on
NoNode == [device |-> 0, number |-> 0]

NodePorts == {Port(d, n) : d \in Devices, n \in HostPorts}

\* the sequences of distinct devices from a to b of at most MaxHops links
Routes(a, b) ==
    {r \in UNION {[1..n -> Devices] : n \in 2..(MaxHops + 1)} :
        /\ r[1] = a
        /\ r[Len(r)] = b
        /\ \A i, j \in 1..Len(r) : i # j => r[i] # r[j]}

\* finder.Path for a route: per link, the near-end port and the far-end port
PathOf(r) ==
    [i \in 1..(Len(r) - 1) |->
        <<Port(r[i], TrunkPort(r[i], r[i + 1])), Port(r[i + 1], TrunkPort(r[i + 1], r[i]))>>]

\* what finder.Path may return: nil/empty, or the links of some route
Paths(a, b) == {<<>>} \cup (IF a = b THEN {} ELSE {PathOf(r) : r \in Routes(a, b)})

\* the lists of distinct MACs (port.Nodes)
NodeLists ==
    {l \in UNION {[1..n -> HostMACs] : n \in 0..NumHosts} :
        \A i, j \in 1..Len(l) : i # j => l[i] # l[j]}

RECURSIVE SortedSeq(_)
\* finder.Devices: the devices of a set, as a list
SortedSeq(S) ==
    IF S = {} THEN <<>>
    ELSE LET m == CHOOSE x \in S : \A y \in S : x <= y
         IN <<m>> \o SortedSeq(S \ {m})

---------------------------------------------------------------------------
(* Part I: the messages of the openflow factory *)

\* openflow.NewInPort
NewInPort == [isController |-> FALSE, value |-> 0]

\* openflow.NewOutPort
NewOutPort == [isFlood |-> FALSE, value |-> 0]

MatchFields == {"inPort", "etherType", "srcMAC", "dstMAC"}

\* factory.NewMatch: every field wildcarded
NewMatch ==
    [wildcards |-> MatchFields, inPort |-> NewInPort, etherType |-> 0,
     srcMAC |-> <<>>, dstMAC |-> <<>>]

\* Match.SetInPort, SetEtherType, SetSrcMAC, SetDstMAC
SetField(match, field, value) ==
    [match EXCEPT ![field] = value, !.wildcards = @ \ {field}]

\* factory.NewAction with SetOutPort
NewAction(outPort) == [type |-> "OUTPUT", outPort |-> outPort]

\* factory.NewPacketOut
NewPacketOut == [type |-> "PACKET_OUT", inPort |-> NewInPort, actions |-> <<>>, data |-> <<>>]

\* factory.NewFlowMod
NewFlowMod(cmd) ==
    [type |-> "FLOW_MOD", command |-> cmd, tableID |-> 0, idleTimeout |-> 0,
     priority |-> 0, cookie |-> {}, cookieMask |-> {}, match |-> NewMatch,
     actions |-> <<>>]

\* protocol.Ethernet.MarshalBinary: destination, source, type, payload
MarshalBinary(eth) ==
    eth.DstMAC \o eth.SrcMAC \o <<eth.Type \div 256, eth.Type % 256>> \o eth.Payload

\* network.Device.SendMessage: fails on the devices whose session is broken
SendMessage(d, msg, broken) ==
    [sent |-> <<[device |-> d, msg |-> msg, ok |-> d \notin broken]>>,
     err |-> d \in broken]

---------------------------------------------------------------------------
(* Part I: l2switch *)

\* the result of a call that sends: the sends it made and whether it failed
\* faulty variant: the error is kept and the next step is taken all the same
Then_Continue(first, second) ==
    [sent |-> first.sent \o second.sent, err |-> first.err \/ second.err]

Then(first, second) ==
    IF first.err THEN first
    ELSE [sent |-> first.sent \o second.sent, err |-> second.err]

NoSend == [sent |-> <<>>, err |-> FALSE]

flood(ingress, packet, broken) ==
    LET inPort == [NewInPort EXCEPT !.value = ingress.number]
        outPort == [NewOutPort EXCEPT !.isFlood = TRUE]
        action == NewAction(outPort)
        out == [NewPacketOut EXCEPT !.inPort = inPort, !.actions = <<action>>,
                                    !.data = packet]
    IN SendMessage(ingress.device, out, broken)

packetout(egress, packet, broken) ==
    LET inPort == [NewInPort EXCEPT !.isController = TRUE]
        outPort == [NewOutPort EXCEPT !.value = egress.number]
        action == NewAction(outPort)
        out == [NewPacketOut EXCEPT !.inPort = inPort, !.actions = <<action>>,
                                    !.data = packet]
    IN SendMessage(egress.device, out, broken)

\* faulty variant: the source address is compared with the broadcast address
isBroadcast_Source(eth) == eth.SrcMAC = BroadcastMAC

isBroadcast(eth) == eth.DstMAC = BroadcastMAC

\* flowParam
FlowParam(device, etherType, inPort, outPort, srcMAC, dstMAC) ==
    [device |-> device, etherType |-> etherType, inPort |-> inPort,
     outPort |-> outPort, srcMAC |-> srcMAC, dstMAC |-> dstMAC]

installFlow(p, broken) ==
    LET inPort == [NewInPort EXCEPT !.value = p.inPort]
        match == SetField(SetField(SetField(SetField(NewMatch,
                    "inPort", inPort), "etherType", p.etherType),
                    "srcMAC", p.srcMAC), "dstMAC", p.dstMAC)
        outPort == [NewOutPort EXCEPT !.value = p.outPort]
        action == NewAction(outPort)
        flow == [NewFlowMod("ADD") EXCEPT !.tableID = FlowTableID(p.device),
                                          !.idleTimeout = IdleTimeout,
                                          !.priority = Priority,
                                          !.match = match,
                                          !.actions = <<action>>]
    IN SendMessage(p.device, flow, broken)

\* faulty variant: the second flow is the flow of the reverse direction
setFlowRule_Reverse(p, broken) ==
    Then(installFlow(p, broken),
         installFlow([p EXCEPT !.inPort = p.outPort, !.outPort = p.inPort,
                               !.srcMAC = p.dstMAC, !.dstMAC = p.srcMAC], broken))

setFlowRule(p, broken) ==
    \* Forward, then "Backward" with the same parameters
    Then(installFlow(p, broken), installFlow(p, broken))

RECURSIVE pathLoop(_, _, _, _, _)
\* the loop of switching over path[i..]: its sends, and the in-port it ends with
pathLoop(path, i, inPort, eth, broken) ==
    IF i > Len(path) THEN [sent |-> <<>>, err |-> FALSE, inPort |-> inPort]
    ELSE LET v == path[i]
             param == FlowParam(v[1].device, eth.Type, inPort, v[1].number,
                                eth.SrcMAC, eth.DstMAC)
             r == setFlowRule(param, broken)
         IN IF r.err THEN [sent |-> r.sent, err |-> TRUE, inPort |-> inPort]
            ELSE LET rest == pathLoop(path, i + 1, v[2].number, eth, broken)
                 IN [sent |-> r.sent \o rest.sent, err |-> rest.err,
                     inPort |-> rest.inPort]

\* faulty variant: the final flow keeps the ingress port as its in-port
switching_StaleInPort(p, broken) ==
    IF Len(p.path) = 0 THEN NoSend
    ELSE LET loop == pathLoop(p.path, 1, p.ingress.number, p.ethernet, broken)
             param == FlowParam(p.egress.device, p.ethernet.Type, p.ingress.number,
                                p.egress.number, p.ethernet.SrcMAC, p.ethernet.DstMAC)
         IN Then([sent |-> loop.sent, err |-> loop.err],
                 Then(setFlowRule(param, broken),
                      packetout(p.egress, p.rawPacket, broken)))

\* switchParam: ethernet, ingress, egress, rawPacket, and the finder's path
switching(p, broken) ==
    IF Len(p.path) = 0 THEN NoSend
    ELSE LET loop == pathLoop(p.path, 1, p.ingress.number, p.ethernet, broken)
             param == FlowParam(p.egress.device, p.ethernet.Type, loop.inPort,
                                p.egress.number, p.ethernet.SrcMAC, p.ethernet.DstMAC)
         IN Then([sent |-> loop.sent, err |-> loop.err],
                 Then(setFlowRule(param, broken),
                      packetout(p.egress, p.rawPacket, broken)))

localSwitching(p, broken) ==
    LET param == FlowParam(p.ingress.device, p.ethernet.Type, p.ingress.number,
                           p.egress.number, p.ethernet.SrcMAC, p.ethernet.DstMAC)
    IN Then(setFlowRule(param, broken), packetout(p.egress, p.rawPacket, broken))

\* ProcessPacket(factory, finder, eth, ingress): c carries eth, ingress and what
\* the finder answers (dstNode for finder.Node, path for finder.Path)
ProcessPacket(c) ==
    LET packet == MarshalBinary(c.eth)
    IN IF c.dstNode = NoNode \/ isBroadcast(c.eth)
       THEN LET f == flood(c.ingress, packet, c.broken)
            IN [drop |-> TRUE, err |-> f.err, sent |-> f.sent]
       ELSE LET param == [ethernet |-> c.eth, ingress |-> c.ingress,
                          egress |-> c.dstNode, rawPacket |-> packet,
                          path |-> c.path]
                r == IF c.ingress.device = c.dstNode.device
                     THEN localSwitching(param, c.broken)
                     ELSE switching(param, c.broken)
            IN IF r.err THEN [drop |-> FALSE, err |-> TRUE, sent |-> r.sent]
               ELSE [drop |-> TRUE, err |-> FALSE, sent |-> r.sent]

\* faulty variant: the cookie mask is left unset
removeFlow_NoMask(d, match, broken) ==
    LET flowmod == [NewFlowMod("DELETE") EXCEPT
                        !.tableID = TableAll,
                        !.match = match]
    IN SendMessage(d, flowmod, broken)

removeFlow(d, match, broken) ==
    LET flowmod == [NewFlowMod("DELETE") EXCEPT
                        !.cookieMask = Shl({0}, CookieMaskShift),
                        !.tableID = TableAll,
                        !.match = match]
    IN SendMessage(d, flowmod, broken)

RECURSIVE removeFlowRules_SrcTwice(_, _, _)
\* faulty variant: the second DELETE matches the source address again
removeFlowRules_SrcTwice(devices, mac, broken) ==
    IF devices = <<>> THEN NoSend
    ELSE LET d == Head(devices)
         IN Then(removeFlow(d, SetField(NewMatch, "srcMAC", mac), broken),
                 Then(removeFlow(d, SetField(NewMatch, "srcMAC", mac), broken),
                      removeFlowRules_SrcTwice(Tail(devices), mac, broken)))

RECURSIVE removeFlowRules(_, _, _)
\* over the devices list: the first failed send returns the error
removeFlowRules(devices, mac, broken) ==
    IF devices = <<>> THEN NoSend
    ELSE LET d == Head(devices)
         IN Then(removeFlow(d, SetField(NewMatch, "srcMAC", mac), broken),
                 Then(removeFlow(d, SetField(NewMatch, "dstMAC", mac), broken),
                      removeFlowRules(Tail(devices), mac, broken)))

RECURSIVE removeAllFlows(_, _)
\* over the devices list: a failed send is logged and the loop continues
removeAllFlows(devices, broken) ==
    IF devices = <<>> THEN NoSend
    ELSE LET r == removeFlow(Head(devices), NewMatch, broken)
             rest == removeAllFlows(Tail(devices), broken)
         IN [sent |-> r.sent \o rest.sent, err |-> FALSE]

RECURSIVE nodeLoop(_, _, _)
\* the loop of cleanup over port.Nodes: a failure is logged and the loop continues
nodeLoop(nodes, devices, broken) ==
    IF nodes = <<>> THEN NoSend
    ELSE LET r == removeFlowRules(devices, Head(nodes), broken)
             rest == nodeLoop(Tail(nodes), devices, broken)
         IN [sent |-> r.sent \o rest.sent, err |-> FALSE]

\* faulty variant: the edge test is skipped
cleanup_NoEdgeTest(c) == nodeLoop(c.nodes, c.devices, c.broken)

\* cleanup(factory, finder, port): c carries what the finder and the port answer
cleanup(c) ==
    IF c.isEdge THEN removeAllFlows(c.devices, c.broken)
    ELSE nodeLoop(c.nodes, c.devices, c.broken)

\* openflow.Port.IsPortDown / IsLinkDown
IsPortDown(port) == BitAnd(port.config, OFPPC_PORT_DOWN) # 0

IsLinkDown(port) == BitAnd(port.state, OFPPS_LINK_DOWN) # 0

\* ProcessEvent(factory, finder, device, status)
ProcessEvent(c) ==
    IF IsPortDown(c.status) \/ IsLinkDown(c.status)
    THEN IF c.status.number \notin DevicePorts(c.device)
         THEN [err |-> TRUE, sent |-> <<>>]
         ELSE LET r == cleanup(c) IN [err |-> r.err, sent |-> r.sent]
    ELSE [err |-> FALSE, sent |-> <<>>]

---------------------------------------------------------------------------
(* Part I: the calls of the policy *)

NoCall == [kind |-> "none"]

NoRet == [drop |-> FALSE, err |-> FALSE]

Payloads == {<<>>, <<69>>}

Frames ==
    [SrcMAC : HostMACs, DstMAC : HostMACs \cup {BroadcastMAC}, Type : EtherTypes,
     Payload : Payloads]

\* the configs and states a PORT_STATUS reports: up, PORT_DOWN, NO_PACKET_IN
StatusConfigs == {0, 1, 64}

StatusStates == {0, 1}

\* the devices whose session is broken during a call: none, or any one
BrokenSets == {{}} \cup {{d} : d \in Devices}

PolicyInit ==
    /\ phase = "idle"
    /\ call = NoCall
    /\ sent = <<>>
    /\ ret = NoRet

\* the controller dispatches a PACKET_IN to the policy
PacketIn ==
    /\ phase = "idle"
    /\ \E eth \in Frames, d \in Devices, dstNode \in NodePorts \cup {NoNode},
          broken \in BrokenSets :
         \E n \in DevicePorts(d),
            path \in (IF dstNode = NoNode THEN {<<>>} ELSE Paths(d, dstNode.device)) :
            call' = [kind |-> "packet", eth |-> eth, ingress |-> Port(d, n),
                     dstNode |-> dstNode, path |-> path, broken |-> broken]
    /\ phase' = "pending"
    /\ UNCHANGED <<sent, ret>>
    /\ UNCHANGED deviceVars

\* L2Switch.ProcessPacket runs to its return
RunProcessPacket ==
    /\ phase = "pending"
    /\ call.kind = "packet"
    /\ LET r == ProcessPacket(call)
       IN /\ sent' = r.sent
          /\ ret' = [drop |-> r.drop, err |-> r.err]
    /\ phase' = "done"
    /\ UNCHANGED call
    /\ UNCHANGED deviceVars

\* the controller dispatches a PORT_STATUS to the policy
PortStatus ==
    /\ phase = "idle"
    /\ \E d \in Devices, config \in StatusConfigs, state \in StatusStates,
          isEdge \in BOOLEAN, nodes \in NodeLists, devs \in SUBSET Devices,
          broken \in BrokenSets :
         \E n \in StatusPorts(d) :
            call' = [kind |-> "event", device |-> d,
                     status |-> [number |-> n, config |-> config, state |-> state],
                     isEdge |-> isEdge, nodes |-> nodes,
                     devices |-> SortedSeq(devs), broken |-> broken]
    /\ phase' = "pending"
    /\ UNCHANGED <<sent, ret>>
    /\ UNCHANGED deviceVars

\* L2Switch.ProcessEvent runs to its return
RunProcessEvent ==
    /\ phase = "pending"
    /\ call.kind = "event"
    /\ LET r == ProcessEvent(call)
       IN /\ sent' = r.sent
          /\ ret' = [drop |-> FALSE, err |-> r.err]
    /\ phase' = "done"
    /\ UNCHANGED call
    /\ UNCHANGED deviceVars

\* the caller takes the result
Return ==
    /\ phase = "done"
    /\ phase' = "idle"
    /\ call' = NoCall
    /\ sent' = <<>>
    /\ ret' = NoRet
    /\ UNCHANGED deviceVars

PolicyNext ==
    \/ PacketIn
    \/ RunProcessPacket
    \/ PortStatus
    \/ RunProcessEvent
    \/ Return

---------------------------------------------------------------------------
(* Part II: device.Manager *)

Sessions == 1..NumSessions

DPIDs == 0..MaxDPID

\* the configs a switch reports for a port: none, PORT_DOWN|NO_STP,
\* PORT_DOWN|NO_PACKET_IN
PortConfigs == {0, 3, 65}

\* openflow.Port as a FEATURES_REPLY or PORT_STATUS carries it
SwitchPort(n, config) ==
    [Number |-> n, MAC |-> MAC(n), Config |-> config, Advertised |-> 32 * n]

SwitchPorts == {SwitchPort(n, c) : n \in 1..MaxPorts, c \in PortConfigs}

\* the port lists of a FEATURES_REPLY: distinct port numbers
PortLists ==
    {l \in UNION {[1..n -> SwitchPorts] : n \in 0..MaxPorts} :
        \A i, j \in 1..Len(l) : i # j => l[i].Number # l[j].Number}

\* openflow.FeaturesReplyMessage
FeaturesReplies ==
    [DPID : DPIDs, NumBuffers : {256}, NumTables : {1}, Capabilities : {5},
     Actions : {1}, Ports : PortLists]

\* NewManager
NewManager ==
    [pc |-> "new", openflow |-> FALSE, DPID |-> 0, AuxID |-> 0, NumBuffers |-> 0,
     NumTables |-> 0, Capabilities |-> 0, Actions |-> 0, Ports |-> <<>>,
     cancel |-> FALSE, ctxDone |-> FALSE]

\* r.Ports[number] = port
PutPort(ports, port) ==
    [n \in DOMAIN ports \cup {port.Number} |->
        IF n = port.Number THEN port ELSE ports[n]]

RECURSIVE PutPorts(_, _)
PutPorts(ports, list) ==
    IF list = <<>> THEN ports ELSE PutPorts(PutPort(ports, Head(list)), Tail(list))

\* no session
NoSession == 0

\* the registry is the set of its entries: session s under (dpid, aux)
PoolEntry(dpid, aux, s) == [dpid |-> dpid, aux |-> aux, session |-> s]

\* the entries of the registry under (dpid, aux)
PoolAt(p, dpid, aux) == {e \in p : e.dpid = dpid /\ e.aux = aux}

\* faulty variant: the entry is added next to the one the key has
PoolAdd_Append(p, dpid, aux, s) == p \cup {PoolEntry(dpid, aux, s)}

\* Pool.add: the map assignment replaces the entry of the key
PoolAdd(p, dpid, aux, s) == (p \ PoolAt(p, dpid, aux)) \cup {PoolEntry(dpid, aux, s)}

\* Pool.remove
PoolRemove(p, dpid, aux) == p \ PoolAt(p, dpid, aux)

\* Pool.Search: the sessions registered under dpid
PoolSearch(p, dpid) == {e.session : e \in {e \in p : e.dpid = dpid}}

\* a write of the transceiver: from the failAt-th write of a handler on, the
\* socket is broken and every write fails (0: none fails)
Write(w, msg, failAt) ==
    LET ok == failAt = 0 \/ Len(w) + 1 < failAt
    IN [wire |-> Append(w, [msg |-> msg, ok |-> ok]), err |-> ~ok]

handleHelloMessage(version) ==
    \* We only support OF 1.0
    [err |-> version < 1]

\* faulty variant: NO_STP is added to the config, not or-ed into it
PortMod_Plus(v) ==
    [type |-> "PORT_MOD", number |-> v.Number, mac |-> v.MAC,
     config |-> v.Config + OFPPC_NO_STP, advertised |-> v.Advertised]

\* the port and config of SendPortModificationMessage for port v
PortMod(v) ==
    [type |-> "PORT_MOD", number |-> v.Number, mac |-> v.MAC,
     config |-> BitOr(v.Config, OFPPC_NO_STP), advertised |-> v.Advertised]

RECURSIVE portModLoop(_, _, _)
\* Disable STP on all ports: the first failed write returns the error
portModLoop(ports, w, failAt) ==
    IF ports = <<>> THEN [wire |-> w, err |-> FALSE]
    ELSE LET r == Write(w, PortMod(Head(ports)), failAt)
         IN IF r.err THEN r ELSE portModLoop(Tail(ports), r.wire, failAt)

\* Manager.InstallFlowRule on a running session, with the rule of the test block
InstallTestRule(w, failAt) ==
    Write(w, [type |-> "FLOW_MOD", command |-> "ADD", idleTimeout |-> 30,
              outPorts |-> <<40, 41, 42>>], failAt)

\* faulty variant: the reply is stored before the PORT_MODs and the barrier
\* are sent
handleFeaturesReplyMessage_StoreFirst(m, s, p, msg, failAt) ==
    LET m2 == [m EXCEPT !.DPID = msg.DPID,
                        !.NumBuffers = msg.NumBuffers,
                        !.NumTables = msg.NumTables,
                        !.Capabilities = msg.Capabilities,
                        !.Actions = msg.Actions,
                        !.Ports = PutPorts(m.Ports, msg.Ports)]
        mods == portModLoop(msg.Ports, <<>>, failAt)
        barrier == IF mods.err THEN mods
                   ELSE Write(mods.wire, [type |-> "BARRIER_REQUEST"], failAt)
    IN IF barrier.err
       THEN [mgr |-> m2, pool |-> p, wire |-> barrier.wire, err |-> TRUE]
       ELSE LET flow == InstallTestRule(barrier.wire, failAt)
                stats == Write(flow.wire, [type |-> "STATS_REQUEST"], failAt)
                config == Write(stats.wire, [type |-> "GET_CONFIG_REQUEST"], failAt)
            IN [mgr |-> m2, pool |-> PoolAdd(p, m2.DPID, m2.AuxID, s),
                wire |-> config.wire, err |-> FALSE]

\* handleFeaturesReplyMessage on manager m: the manager and the registry it
\* leaves, the writes it made, and the error it returns
handleFeaturesReplyMessage(m, s, p, msg, failAt) ==
    LET mods == portModLoop(msg.Ports, <<>>, failAt)
        barrier == IF mods.err THEN mods
                   ELSE Write(mods.wire, [type |-> "BARRIER_REQUEST"], failAt)
    IN IF barrier.err
       THEN [mgr |-> m, pool |-> p, wire |-> barrier.wire, err |-> TRUE]
       ELSE LET m2 == [m EXCEPT !.DPID = msg.DPID,
                                !.NumBuffers = msg.NumBuffers,
                                !.NumTables = msg.NumTables,
                                !.Capabilities = msg.Capabilities,
                                !.Actions = msg.Actions,
                                !.Ports = PutPorts(m.Ports, msg.Ports)]
                \* XXX: test
                flow == InstallTestRule(barrier.wire, failAt)
                stats == Write(flow.wire, [type |-> "STATS_REQUEST"], failAt)
                config == Write(stats.wire, [type |-> "GET_CONFIG_REQUEST"], failAt)
            IN [mgr |-> m2, pool |-> PoolAdd(p, m2.DPID, m2.AuxID, s),
                wire |-> config.wire, err |-> FALSE]

\* handlePacketInMessage: Manager.SendPacketOut floods the packet
handlePacketInMessage(m, inPort, data, failAt) ==
    IF ~m.openflow THEN [wire |-> <<>>, err |-> FALSE]
    ELSE [wire |-> Write(<<>>, [type |-> "PACKET_OUT", inPort |-> inPort,
                                flood |-> TRUE, data |-> data], failAt).wire,
          err |-> FALSE]

\* Manager.InstallFlowRule, Manager.RemoveFlowRule, Manager.SendPacketOut
SendPaths == {"InstallFlowRule", "RemoveFlowRule", "SendPacketOut"}

\* the message a send path hands to the transceiver
SendPathMessage(path) ==
    CASE path = "InstallFlowRule" ->
             [type |-> "FLOW_MOD", command |-> "ADD", idleTimeout |-> 30,
              outPorts |-> <<40>>]
      [] path = "RemoveFlowRule" -> [type |-> "FLOW_MOD", command |-> "DELETE"]
      [] path = "SendPacketOut" ->
             [type |-> "PACKET_OUT", inPort |-> 1, flood |-> TRUE, data |-> <<69>>]

\* if r.openflow == nil { return ErrDisconnected }
IsDisconnected(m) == ~m.openflow

\* return r.openflow.Send...: a nil r.openflow is dereferenced
SendPathSend(m, path, failAt) ==
    IF ~m.openflow THEN [wire |-> <<>>, result |-> "panic"]
    ELSE LET w == Write(<<>>, SendPathMessage(path), failAt)
         IN [wire |-> w.wire, result |-> IF w.err THEN "error" ELSE "nil"]

\* handlePortStatusMessage
handlePortStatusMessage(m, target) == [m EXCEPT !.Ports = PutPort(m.Ports, target)]

---------------------------------------------------------------------------
(* Part II: the steps of a connection *)

NoHandler == [session |-> NoSession, handler |-> "none", ready |-> FALSE]

HelloVersions == {0, 1, 4}

\* the write of a handler from which the socket is broken (0: never)
FailPoints == 0..(MaxPorts + 4)

\* a handler of session s ran: its name, and whether the handshake was over
Handled(s, name) == [session |-> s, handler |-> name, ready |-> xcvr[s] = "READY"]

\* the I/O loop returns the handler's error
AfterHandler(m, err) == IF err THEN [m EXCEPT !.pc = "returned"] ELSE m

\* no send path is being called
NoSender == [pc |-> "idle"]

DeviceInit ==
    /\ mgr = [s \in Sessions |-> NewManager]
    /\ pool = {}
    /\ xcvr = [s \in Sessions |-> "NONE"]
    /\ hcall = NoHandler
    /\ wire = <<>>
    /\ sender = NoSender

\* Manager.Run up to the call of r.openflow.Run
RunStart(s, ok) ==
    /\ mgr[s].pc = "new"
    /\ IF ok
       THEN /\ mgr' = [mgr EXCEPT ![s].openflow = TRUE, ![s].cancel = TRUE,
                                  ![s].pc = "io"]
            /\ xcvr' = [xcvr EXCEPT ![s] = "CONNECTED"]
       ELSE /\ mgr' = [mgr EXCEPT ![s].pc = "done"]
            /\ UNCHANGED xcvr
    /\ UNCHANGED <<pool, hcall, wire>>
    /\ UNCHANGED <<sender, policyVars>>

\* what the HELLO handler of session s does to the session
HelloStep(s, version) ==
    /\ mgr[s].pc = "io"
    /\ xcvr[s] = "CONNECTED"
    /\ LET r == handleHelloMessage(version)
       IN /\ mgr' = [mgr EXCEPT ![s] = AfterHandler(@, r.err)]
          /\ xcvr' = [xcvr EXCEPT ![s] = IF r.err THEN @ ELSE "HELLO_RECEIVED"]
    /\ UNCHANGED pool

HandleHello(s, version) ==
    /\ HelloStep(s, version)
    /\ hcall' = Handled(s, "Hello") @@
                [version |-> version, err |-> handleHelloMessage(version).err]
    /\ wire' = <<>>
    /\ UNCHANGED <<sender, policyVars>>

HandleError(s) ==
    /\ mgr[s].pc = "io"
    /\ hcall' = Handled(s, "Error")
    /\ wire' = <<>>
    /\ UNCHANGED <<mgr, pool, xcvr>>
    /\ UNCHANGED <<sender, policyVars>>

\* what the FEATURES_REPLY handler of session s does to the session and the
\* registry, for the reply msg and a socket breaking at failAt
FeaturesReplyStep(s, msg, failAt) ==
    LET r == handleFeaturesReplyMessage(mgr[s], s, pool, msg, failAt)
    IN /\ mgr' = [mgr EXCEPT ![s] = AfterHandler(r.mgr, r.err)]
       /\ pool' = r.pool
       /\ xcvr' = [xcvr EXCEPT ![s] = IF r.err THEN @ ELSE "FEATURES_RECEIVED"]

HandleFeaturesReply(s) ==
    /\ mgr[s].pc = "io"
    /\ xcvr[s] = "HELLO_RECEIVED"
    /\ \E msg \in FeaturesReplies, failAt \in FailPoints :
         LET r == handleFeaturesReplyMessage(mgr[s], s, pool, msg, failAt)
         IN /\ FeaturesReplyStep(s, msg, failAt)
            /\ wire' = r.wire
            /\ hcall' = Handled(s, "FeaturesReply") @@ [msg |-> msg, err |-> r.err]
    /\ UNCHANGED <<sender, policyVars>>

HandleBarrierReply(s) ==
    /\ mgr[s].pc = "io"
    /\ xcvr[s] = "FEATURES_RECEIVED"
    /\ xcvr' = [xcvr EXCEPT ![s] = "READY"]
    /\ hcall' = Handled(s, "BarrierReply")
    /\ wire' = <<>>
    /\ UNCHANGED <<mgr, pool>>
    /\ UNCHANGED <<sender, policyVars>>

HandlePacketIn(s, inPort, data, failAt) ==
    /\ mgr[s].pc = "io"
    /\ xcvr[s] = "READY"
    /\ wire' = handlePacketInMessage(mgr[s], inPort, data, failAt).wire
    /\ hcall' = Handled(s, "PacketIn")
    /\ UNCHANGED <<mgr, pool, xcvr>>
    /\ UNCHANGED <<sender, policyVars>>

HandlePortStatus(s, target) ==
    /\ mgr[s].pc = "io"
    /\ xcvr[s] = "READY"
    /\ mgr' = [mgr EXCEPT ![s] = handlePortStatusMessage(@, target)]
    /\ hcall' = Handled(s, "PortStatus")
    /\ wire' = <<>>
    /\ UNCHANGED <<pool, xcvr>>
    /\ UNCHANGED <<sender, policyVars>>

\* the handlers that only log: echo request and reply, flow removed, the
\* stats replies and the get-config reply
HandleLogOnly(s) ==
    /\ mgr[s].pc = "io"
    /\ xcvr[s] = "READY"
    /\ hcall' = Handled(s, "LogOnly")
    /\ wire' = <<>>
    /\ UNCHANGED <<mgr, pool, xcvr>>
    /\ UNCHANGED <<sender, policyVars>>

\* r.openflow.Run returns: peer close, timeout, error or cancellation
LoopReturn(s) ==
    /\ mgr[s].pc = "io"
    /\ mgr' = [mgr EXCEPT ![s].pc = "returned"]
    /\ UNCHANGED <<pool, xcvr, hcall, wire>>
    /\ UNCHANGED <<sender, policyVars>>

\* Reset after the switch is disconnected
RunReset(s) ==
    /\ mgr[s].pc = "returned"
    /\ mgr' = [mgr EXCEPT ![s].openflow = FALSE, ![s].pc = "reset"]
    /\ UNCHANGED <<pool, xcvr, hcall, wire>>
    /\ UNCHANGED <<sender, policyVars>>

\* faulty variant: only a main connection is removed from the device pool
RunRemove_MainOnly(s) ==
    /\ mgr[s].pc = "reset"
    /\ pool' = IF mgr[s].AuxID = 0 THEN PoolRemove(pool, mgr[s].DPID, mgr[s].AuxID)
               ELSE pool
    /\ mgr' = [mgr EXCEPT ![s].pc = "removed"]
    /\ UNCHANGED <<xcvr, hcall, wire>>
    /\ UNCHANGED <<sender, policyVars>>

\* Remove this device from the device pool
RunRemove(s) ==
    /\ mgr[s].pc = "reset"
    /\ pool' = PoolRemove(pool, mgr[s].DPID, mgr[s].AuxID)
    /\ mgr' = [mgr EXCEPT ![s].pc = "removed"]
    /\ UNCHANGED <<xcvr, hcall, wire>>
    /\ UNCHANGED <<sender, policyVars>>

\* faulty variant: the call flips the state of the context
CancelManager_Toggle(m) == IF m.cancel THEN [m EXCEPT !.ctxDone = ~@] ELSE m

\* Manager.Cancel on manager m
CancelManager(m) == IF m.cancel THEN [m EXCEPT !.ctxDone = TRUE] ELSE m

\* faulty variant: only the sessions that are main connections are cancelled
cancelManagers_MainOnly(ms, p, dpid) ==
    [t \in Sessions |->
        IF t \in PoolSearch(p, dpid) /\ ms[t].AuxID = 0 THEN CancelManager(ms[t])
        ELSE ms[t]]

\* cancelManagers(dpid) on the managers ms
cancelManagers(ms, p, dpid) ==
    [t \in Sessions |-> IF t \in PoolSearch(p, dpid) THEN CancelManager(ms[t]) ELSE ms[t]]

\* Cancel all manager aux connections if we were the main connection
RunCancelAux(s) ==
    /\ mgr[s].pc = "removed"
    /\ LET ms == IF mgr[s].AuxID = 0 THEN cancelManagers(mgr, pool, mgr[s].DPID)
                 ELSE mgr
       IN mgr' = [ms EXCEPT ![s].pc = "done"]
    /\ UNCHANGED <<pool, xcvr, hcall, wire>>
    /\ UNCHANGED <<sender, policyVars>>

\* Manager.Cancel, called from outside the session's task
Cancel(s) ==
    /\ mgr[s].pc # "done"
    /\ mgr[s].cancel
    /\ ~mgr[s].ctxDone
    /\ mgr' = [mgr EXCEPT ![s] = CancelManager(@)]
    /\ UNCHANGED <<pool, xcvr, hcall, wire>>
    /\ UNCHANGED <<sender, policyVars>>

\* another task calls a send path of session s: the test of r.openflow
SendPathCheck(s, path) ==
    /\ sender.pc = "idle"
    /\ IF IsDisconnected(mgr[s])
       THEN /\ hcall' = Handled(s, path) @@ [result |-> "Disconnected"]
            /\ wire' = <<>>
            /\ UNCHANGED sender
       ELSE /\ sender' = [pc |-> "checked", session |-> s, path |-> path]
            /\ UNCHANGED <<hcall, wire>>
    /\ UNCHANGED <<mgr, pool, xcvr>>
    /\ UNCHANGED policyVars

\* the send path that passed the test uses r.openflow and returns; the two
\* reads of r.openflow are not synchronised with Run, so the use reads the
\* field again (reread) or works on the reference the test has read
SendPathReturn(s, failAt, reread) ==
    /\ sender.pc = "checked"
    /\ sender.session = s
    /\ LET m == IF reread THEN mgr[s] ELSE [mgr[s] EXCEPT !.openflow = TRUE]
           r == SendPathSend(m, sender.path, failAt)
       IN /\ hcall' = Handled(s, sender.path) @@ [result |-> r.result]
          /\ wire' = r.wire
    /\ sender' = NoSender
    /\ UNCHANGED <<mgr, pool, xcvr>>
    /\ UNCHANGED policyVars

\* one connection, with every FEATURES_REPLY of FeaturesReplies
SessionNext ==
    \E s \in {1} :
        \/ \E ok \in BOOLEAN : RunStart(s, ok)
        \/ \E version \in HelloVersions : HandleHello(s, version)
        \/ HandleError(s)
        \/ HandleFeaturesReply(s)
        \/ HandleBarrierReply(s)
        \/ \E inPort \in 1..MaxPorts, data \in Payloads, failAt \in 0..1 :
               HandlePacketIn(s, inPort, data, failAt)
        \/ \E target \in SwitchPorts : HandlePortStatus(s, target)
        \/ HandleLogOnly(s)
        \/ LoopReturn(s)
        \/ RunReset(s)
        \/ RunRemove(s)
        \/ RunCancelAux(s)
        \/ Cancel(s)
        \/ \E path \in SendPaths : SendPathCheck(s, path)
        \/ \E failAt \in 0..1, reread \in BOOLEAN : SendPathReturn(s, failAt, reread)

\* Manager.AuxID as the creator of the Manager leaves it: the main
\* connection of a switch (0) or an auxiliary one
AuxIDs == {0, 1}

\* the FEATURES_REPLY of a switch without ports
PortlessReplies ==
    [DPID : DPIDs, NumBuffers : {256}, NumTables : {1}, Capabilities : {5},
     Actions : {1}, Ports : {<<>>}]

\* the I/O loop of a session whose context is cancelled returns
CancelledReturn(s) ==
    /\ mgr[s].ctxDone
    /\ LoopReturn(s)

\* the handlers' messages are not recorded
Unrecorded == UNCHANGED <<hcall, wire, sender, policyVars>>

\* the HELLO handler of session s, for an OpenFlow 1.0 switch
RegistryHello(s) ==
    /\ HelloStep(s, 1)
    /\ Unrecorded

\* the FEATURES_REPLY handler of session s, for a reply of PortlessReplies
RegistryFeaturesReply(s) ==
    /\ mgr[s].pc = "io"
    /\ xcvr[s] = "HELLO_RECEIVED"
    /\ \E msg \in PortlessReplies, failAt \in 0..1 : FeaturesReplyStep(s, msg, failAt)
    /\ Unrecorded

RegistryInit ==
    /\ PolicyInit
    /\ mgr \in [Sessions -> {[NewManager EXCEPT !.AuxID = a] : a \in AuxIDs}]
    /\ pool = {}
    /\ xcvr = [s \in Sessions |-> "NONE"]
    /\ hcall = NoHandler
    /\ wire = <<>>
    /\ sender = NoSender

\* every connection, with the replies of PortlessReplies
RegistryNext ==
    \E s \in Sessions :
        \/ RunStart(s, TRUE)
        \/ RegistryHello(s)
        \/ RegistryFeaturesReply(s)
        \/ LoopReturn(s)
        \/ CancelledReturn(s)
        \/ RunReset(s)
        \/ RunRemove(s)
        \/ RunCancelAux(s)

\* Run goes on after the I/O loop has returned, and a cancelled loop returns
RunFairness ==
    \A s \in Sessions :
        /\ WF_vars(CancelledReturn(s))
        /\ WF_vars(RunReset(s))
        /\ WF_vars(RunRemove(s))
        /\ WF_vars(RunCancelAux(s))

---------------------------------------------------------------------------
(* Specifications *)

Init == PolicyInit /\ DeviceInit

\* the policy alone
SpecPolicy == Init /\ [][PolicyNext]_vars

\* one connection alone
SpecSession == Init /\ [][SessionNext]_vars

\* the connections and the registry
SpecRegistry == RegistryInit /\ [][RegistryNext]_vars

\* the same, where no task of Run stops for ever
SpecRegistryFair == RegistryInit /\ [][RegistryNext]_vars /\ RunFairness

---------------------------------------------------------------------------
(* An OpenFlow switch applying a FLOW_MOD(DELETE) to its flow table *)

\* a flow entry of a switch
FlowEntry(cookie, srcMAC, dstMAC) ==
    [cookie |-> cookie,
     match |-> SetField(SetField(NewMatch, "srcMAC", srcMAC), "dstMAC", dstMAC)]

\* the entry's match is at least as specific as the DELETE's match
Covers(del, entry) ==
    \A f \in MatchFields \ del.wildcards :
        f \notin entry.wildcards /\ entry[f] = del[f]

\* the table after a non-strict DELETE restricted by cookie and cookie mask
SwitchDelete(table, fm) ==
    {e \in table :
        ~(/\ Covers(fm.match, e.match)
          /\ WordAnd(e.cookie, fm.cookieMask) = WordAnd(fm.cookie, fm.cookieMask))}

\* tables holding table-miss entries (cookie MSB 1) and forwarding entries
FlowTables ==
    {t \in SUBSET {FlowEntry({63}, MAC(1), MAC(2)), FlowEntry({0, 63}, MAC(2), MAC(1)),
                   FlowEntry({}, MAC(1), MAC(2)), FlowEntry({0}, MAC(2), MAC(1))} :
        /\ \E e \in t : 63 \in e.cookie
        /\ \E e \in t : 63 \notin e.cookie}

---------------------------------------------------------------------------
(* Properties of the policy *)

PacketDone == phase = "done" /\ call.kind = "packet"

EventDone == phase = "done" /\ call.kind = "event"

\* the positions of sent that satisfy P
Where(P(_)) == {i \in 1..Len(sent) : P(sent[i])}

IsFlowMod(e) == e.msg.type = "FLOW_MOD"

IsPacketOut(e) == e.msg.type = "PACKET_OUT"

AllSendsOK == \A i \in 1..Len(sent) : sent[i].ok

\* the frame as the PACKET_IN delivered it
OriginalPacket ==
    call.eth.DstMAC \o call.eth.SrcMAC
        \o <<call.eth.Type \div 256, call.eth.Type % 256>> \o call.eth.Payload

\* e is a PACKET_OUT of the original packet on device d out of port n
IsPacketOutTo(e, d, n) ==
    /\ IsPacketOut(e)
    /\ e.device = d
    /\ e.msg.actions = <<[type |-> "OUTPUT", outPort |-> [isFlood |-> FALSE, value |-> n]]>>
    /\ e.msg.data = OriginalPacket

\* e is an ADD on device d of (inP, ether-type, S, D) -> OUTPUT(outP) for the call's frame
IsForwardFlow(e, d, inP, outP) ==
    /\ IsFlowMod(e)
    /\ e.msg.command = "ADD"
    /\ e.device = d
    /\ e.msg.match.wildcards = {}
    /\ e.msg.match.inPort = [isController |-> FALSE, value |-> inP]
    /\ e.msg.match.etherType = call.eth.Type
    /\ e.msg.match.srcMAC = call.eth.SrcMAC
    /\ e.msg.match.dstMAC = call.eth.DstMAC
    /\ e.msg.actions = <<[type |-> "OUTPUT", outPort |-> [isFlood |-> FALSE, value |-> outP]]>>

FloodCase == PacketDone /\ (call.eth.DstMAC = BroadcastMAC \/ call.dstNode = NoNode)

KnownUnicast == PacketDone /\ call.eth.DstMAC # BroadcastMAC /\ call.dstNode # NoNode

LocalCase == KnownUnicast /\ call.ingress.device = call.dstNode.device

RemoteCase == KnownUnicast /\ call.ingress.device # call.dstNode.device

\* C1: a PACKET_IN to the broadcast address or to an unknown destination is
\* answered by exactly one PACKET_OUT, through the ingress device, with the
\* ingress port as in-port and the single action OUTPUT(FLOOD), carrying the
\* original packet; no FLOW_MOD is emitted and drop=true is returned.
C1_Flood ==
    FloodCase =>
        /\ Len(sent) = 1
        /\ IsPacketOut(sent[1])
        /\ sent[1].device = call.ingress.device
        /\ sent[1].msg.inPort = [isController |-> FALSE, value |-> call.ingress.number]
        /\ sent[1].msg.actions =
               <<[type |-> "OUTPUT", outPort |-> [isFlood |-> TRUE, value |-> 0]]>>
        /\ sent[1].msg.data = OriginalPacket
        /\ ret.drop

\* a broadcast frame whose node is known on another switch has been flooded
C1_Witness ==
    /\ FloodCase
    /\ call.eth.DstMAC = BroadcastMAC
    /\ call.dstNode # NoNode
    /\ call.dstNode.device # call.ingress.device
    /\ Len(call.path) > 0
    /\ Len(sent) = 1

\* C2: local switching emits exactly one FLOW_MOD(ADD) on dev_in matching
\* (p_in, ether-type, S, D) with action OUTPUT(p_out), followed by exactly one
\* PACKET_OUT on dev_in out p_out carrying the original packet, and returns
\* drop=true (stated for the calls none of whose sends fails).
C2_LocalOneFlow ==
    (LocalCase /\ AllSendsOK) =>
        /\ Cardinality(Where(IsFlowMod)) = 1
        /\ Cardinality(Where(IsPacketOut)) = 1
        /\ Len(sent) = 2
        /\ IsForwardFlow(sent[1], call.ingress.device, call.ingress.number,
                         call.dstNode.number)
        /\ IsPacketOutTo(sent[2], call.ingress.device, call.dstNode.number)
        /\ ret.drop

\* the switches of the call's path in order, the last being dev_out
HopCount == Len(call.path) + 1

HopDevice(k) ==
    IF k <= Len(call.path) THEN call.path[k][1].device ELSE call.dstNode.device

\* hop k enters by p_in, or by the far-end port of the link before it
HopInPort(k) == IF k = 1 THEN call.ingress.number ELSE call.path[k - 1][2].number

\* hop k leaves by its port on the link to the next switch, or by p_out
HopOutPort(k) ==
    IF k <= Len(call.path) THEN call.path[k][1].number ELSE call.dstNode.number

IsHopFlow(e, k) == IsForwardFlow(e, HopDevice(k), HopInPort(k), HopOutPort(k))

\* the path's flows, in path order, then the PACKET_OUT on dev_out out p_out
PathInstalled ==
    /\ HopDevice(1) = call.ingress.device
    /\ \A k \in 1..HopCount : \E i \in 1..Len(sent) : IsHopFlow(sent[i], k)
    /\ \A i \in Where(IsFlowMod) : \E k \in 1..HopCount : IsHopFlow(sent[i], k)
    /\ \A i, j \in Where(IsFlowMod) :
           i < j => \E k, l \in 1..HopCount :
                        k <= l /\ IsHopFlow(sent[i], k) /\ IsHopFlow(sent[j], l)
    /\ IsHopFlow(sent[1], 1)
    /\ Where(IsPacketOut) = {Len(sent)}
    /\ IsPacketOutTo(sent[Len(sent)], call.dstNode.device, call.dstNode.number)
    /\ ret.drop

C4_NoPathNotDropped ==
    (RemoteCase /\ Len(call.path) = 0) =>
        /\ sent = <<>>
        /\ ~ret.err
        /\ ~ret.drop

EventDown ==
    /\ EventDone
    /\ call.status.number \in DevicePorts(call.device)
    /\ (call.status.config % 2 = 1 \/ call.status.state % 2 = 1)

IsDelete(e) == IsFlowMod(e) /\ e.msg.command = "DELETE"

\* e is a DELETE to device d whose match sets exactly the fields of set
DeletesOn(d, set) ==
    Where(LAMBDA e : IsDelete(e) /\ e.device = d /\ e.msg.match.wildcards = MatchFields \ set)

DeviceSet == {call.devices[i] : i \in 1..Len(call.devices)}

NodeSet == {call.nodes[i] : i \in 1..Len(call.nodes)}

\* C5: every FLOW_MOD(DELETE) of the cleanup path has cookie mask 1<<63 and
\* table id 0xFF, and applied to any flow table it removes no entry whose
\* cookie has its most significant bit set.
C5_CookieSafety ==
    EventDone =>
        \A i \in Where(IsDelete) :
            /\ sent[i].msg.cookieMask = {63}
            /\ sent[i].msg.tableID = 255
            /\ \A t \in FlowTables : \A e \in t :
                   63 \in e.cookie => e \in SwitchDelete(t, sent[i].msg)

\* a DELETE was delivered that empties a table of its forwarding entries
C5_Witness ==
    /\ EventDone
    /\ \E i \in Where(IsDelete) :
           /\ sent[i].ok
           /\ \E t \in FlowTables :
                  /\ SwitchDelete(t, sent[i].msg) # t
                  /\ \A e \in SwitchDelete(t, sent[i].msg) : 63 \in e.cookie

\* C6: port-down or link-down on an inter-switch edge emits exactly one
\* wildcard-match DELETE to each switch of devices() and no per-MAC DELETE,
\* however many nodes are recorded behind the port.
C6_EdgeDown ==
    (EventDown /\ call.isEdge) =>
        /\ \A d \in DeviceSet : Cardinality(DeletesOn(d, {})) = 1
        /\ \A i \in 1..Len(sent) :
               /\ IsDelete(sent[i])
               /\ sent[i].msg.match.wildcards = MatchFields
               /\ sent[i].device \in DeviceSet
        /\ Len(sent) = Cardinality(DeviceSet)

\* an edge with nodes behind it went down, and one switch's session was broken
C6_Witness ==
    /\ EventDown
    /\ call.isEdge
    /\ Len(call.nodes) > 0
    /\ Len(call.devices) > 1
    /\ call.broken \cap DeviceSet # {}
    /\ Len(sent) > 1

\* C7: port-down or link-down on a port that is no edge emits, for every node
\* N behind the port and every switch of devices(), exactly two DELETEs to that
\* switch, one matching only src-MAC = N.mac and one matching only
\* dst-MAC = N.mac, when every send succeeds.
C7_HostPortDown ==
    (EventDown /\ ~call.isEdge /\ call.broken \cap DeviceSet = {}) =>
        /\ \A n \in NodeSet, d \in DeviceSet :
               /\ Cardinality({i \in DeletesOn(d, {"srcMAC"}) :
                                  sent[i].msg.match.srcMAC = n}) = 1
               /\ Cardinality({i \in DeletesOn(d, {"dstMAC"}) :
                                  sent[i].msg.match.dstMAC = n}) = 1
        /\ Len(sent) = 2 * Cardinality(NodeSet) * Cardinality(DeviceSet)
        /\ \A i \in 1..Len(sent) : IsDelete(sent[i])

\* a host port with two nodes went down while two switches were registered
C7_Witness ==
    /\ EventDown
    /\ ~call.isEdge
    /\ call.broken \cap DeviceSet = {}
    /\ Len(call.nodes) = 2
    /\ Len(call.devices) = 2
    /\ Len(sent) = 8

\* C8: cleanup is best-effort per switch: a failed DELETE to one switch is
\* absorbed, and the DELETEs for every other switch of devices() and for every
\* remaining node are still emitted.
C8_BestEffort ==
    EventDown =>
        /\ ~ret.err
        /\ \A d \in DeviceSet \ call.broken :
               IF call.isEdge THEN DeletesOn(d, {}) # {}
               ELSE \A n \in NodeSet :
                        /\ \E i \in DeletesOn(d, {"srcMAC"}) : sent[i].msg.match.srcMAC = n
                        /\ \E i \in DeletesOn(d, {"dstMAC"}) : sent[i].msg.match.dstMAC = n

---------------------------------------------------------------------------
(* Properties of a connection *)

\* the positions of wire that hold a message of one of the types
Written(types) == {i \in 1..Len(wire) : wire[i].msg.type \in types}

\* the bits of a port config
Bits(n) == {b \in 0..15 : (n \div (2 ^ b)) % 2 = 1}

FeaturesHandled == hcall.handler = "FeaturesReply"

\* C9: no forwarding-plane message (FLOW_MOD, PACKET_OUT) and no other
\* post-handshake request is sent on a session before the BARRIER_REPLY that
\* answers the BARRIER_REQUEST following the PORT_MODs has been received.
C9_HandshakeOrdered ==
    Written({"FLOW_MOD", "PACKET_OUT", "STATS_REQUEST", "GET_CONFIG_REQUEST"}) # {}
        => hcall.ready

\* one PORT_MOD per port of the reply, then the one BARRIER_REQUEST
PortModsThenBarrier ==
    /\ \A k \in 1..Len(hcall.msg.Ports) :
           LET P == hcall.msg.Ports[k]
               mods == {i \in Written({"PORT_MOD"}) : wire[i].msg.number = P.Number}
           IN /\ Cardinality(mods) = 1
              /\ \A i \in mods :
                     /\ Bits(wire[i].msg.config) = Bits(P.Config) \cup {1}
                     /\ wire[i].msg.advertised = P.Advertised
    /\ Cardinality(Written({"PORT_MOD"})) = Len(hcall.msg.Ports)
    /\ Cardinality(Written({"BARRIER_REQUEST"})) = 1
    /\ \A i \in Written({"PORT_MOD"}), j \in Written({"BARRIER_REQUEST"}) : i < j

---------------------------------------------------------------------------
(* Properties of the policy, continued *)

C20_PacketOutAfterFlows ==
    KnownUnicast =>
        /\ \A i \in Where(IsPacketOut), j \in Where(IsFlowMod) : j < i => sent[j].ok
        /\ \A j \in Where(IsFlowMod) :
               ~sent[j].ok => (j = Len(sent) /\ ~ret.drop /\ ret.err)

\* on a path over two links the flows of the first hop were sent, and the
\* first FLOW_MOD to the second switch failed
C20_Witness ==
    /\ RemoteCase
    /\ Len(call.path) = 2
    /\ Len(sent) = 3
    /\ sent[1].ok /\ sent[2].ok /\ ~sent[3].ok
    /\ IsFlowMod(sent[3])
    /\ ~ret.drop /\ ret.err

---------------------------------------------------------------------------
(* Properties of a connection, continued *)

\* C11: the HELLO handler accepts only wire version 1: it returns success
\* exactly when the version is 1, so versions 0 and 4 are rejected.
C11_HelloOnlyVersion1 ==
    hcall.handler = "Hello" => (hcall.err <=> hcall.version # 1)

\* session s is in the registry p
RegisteredIn(p, s) == \E e \in p : e.session = s

\* session s is in the registry
Registered(s) == RegisteredIn(pool, s)

C13_OnePerKey ==
    \A e1, e2 \in pool : (e1.dpid = e2.dpid /\ e1.aux = e2.aux) => e1 = e2

\* two running connections have reported the same DPID and AuxID, and the
\* registry holds the key
C13_Witness ==
    \E s, t \in Sessions :
        /\ s # t
        /\ mgr[s].pc = "io" /\ xcvr[s] = "FEATURES_RECEIVED"
        /\ mgr[t].pc = "io" /\ xcvr[t] = "FEATURES_RECEIVED"
        /\ mgr[s].DPID = mgr[t].DPID /\ mgr[s].AuxID = mgr[t].AuxID
        /\ PoolAt(pool, mgr[s].DPID, mgr[s].AuxID) # {}

\* the managers after Manager.Cancel on session s
Cancelled(ms, s) == [ms EXCEPT ![s] = CancelManager(@)]

\* C14: Cancel is idempotent: in every state of a session (before Run has
\* set the cancel function, while the session runs, after it has ended) two
\* calls of Cancel leave the session as one call does, and a call of Cancel
\* leaves the registry alone and always returns.
C14_CancelIdempotent ==
    /\ [](\A s \in Sessions : Cancelled(Cancelled(mgr, s), s) = Cancelled(mgr, s))
    /\ [][\A s \in Sessions :
              Cancel(s) => (pool' = pool /\ Cancelled(mgr', s) = mgr')]_vars

\* a running session was cancelled
C14_Witness ==
    /\ mgr[1].pc = "io"
    /\ mgr[1].cancel
    /\ mgr[1].ctxDone

\* the positions of Run at which the session has ended: the I/O loop has
\* returned, or the transceiver could not be made
Ended == {"returned", "reset", "removed", "done"}

\* C15: a send path (InstallFlowRule, RemoveFlowRule, SendPacketOut) called
\* after the session's I/O loop has returned, or before the session has
\* started, returns the Disconnected error and hands no message to the
\* transceiver.
C15_DisconnectedWhenEnded ==
    [][\A s \in Sessions, path \in SendPaths :
           (SendPathCheck(s, path) /\ mgr[s].pc \in Ended \cup {"new"})
               => /\ hcall'.handler = path
                  /\ hcall'.result = "Disconnected"
                  /\ wire' = <<>>
                  /\ sender' = NoSender]_vars

\* the PORT_MOD and BARRIER_REQUEST writes among the writes w
HandshakeWrites(w) ==
    {i \in 1..Len(w) : w[i].msg.type \in {"PORT_MOD", "BARRIER_REQUEST"}}

\* the step is the FEATURES_REPLY handler of session s
FeaturesStep(s) ==
    /\ mgr[s].pc = "io"
    /\ xcvr[s] = "HELLO_RECEIVED"
    /\ hcall'.handler = "FeaturesReply"
    /\ hcall'.session = s

\* C16: a session gets into the registry only in its FEATURES_REPLY handler,
\* and only after a PORT_MOD for every port and the BARRIER_REQUEST were sent
\* successfully; if one of these sends fails the handler returns the error,
\* the registry is as before and so are the manager's DPID, buffer and table
\* counts and port map.
C16_RegisteredOnFeatures ==
    [][\A s \in Sessions :
           /\ (RegisteredIn(pool', s) /\ ~RegisteredIn(pool, s))
                  => /\ FeaturesStep(s)
                     /\ \A i \in HandshakeWrites(wire') : wire'[i].ok
                     /\ Cardinality(HandshakeWrites(wire')) = Len(hcall'.msg.Ports) + 1
           /\ (FeaturesStep(s) /\ \E i \in HandshakeWrites(wire') : ~wire'[i].ok)
                  => /\ hcall'.err
                     /\ mgr'[s].pc = "returned"
                     /\ pool' = pool
                     /\ mgr'[s].DPID = mgr[s].DPID
                     /\ mgr'[s].NumBuffers = mgr[s].NumBuffers
                     /\ mgr'[s].NumTables = mgr[s].NumTables
                     /\ mgr'[s].Ports = mgr[s].Ports]_vars

\* the handler of a reply with two ports sent both PORT_MODs, the barrier
\* failed, and the session is not in the registry
C16_Witness ==
    /\ hcall.handler = "FeaturesReply"
    /\ hcall.err
    /\ Len(hcall.msg.Ports) = 2
    /\ Len(wire) = 3
    /\ wire[3].msg.type = "BARRIER_REQUEST" /\ ~wire[3].ok
    /\ ~Registered(hcall.session)
    /\ mgr[hcall.session].NumBuffers = 0

\* C17: whatever made the I/O loop of a session that had registered return
\* (error, peer close, cancellation), the registry eventually holds no entry
\* for the session's (DPID, AuxID) and a lookup by its DPID does not return
\* the session; once Run has removed it the session is never in the registry.
C17_Deregistered ==
    /\ \A s \in Sessions :
           (mgr[s].pc = "returned" /\ xcvr[s] = "FEATURES_RECEIVED")
               ~> (/\ PoolAt(pool, mgr[s].DPID, mgr[s].AuxID) = {}
                   /\ s \notin PoolSearch(pool, mgr[s].DPID))
    /\ [](\A s \in Sessions : mgr[s].pc \in {"removed", "done"} => ~Registered(s))

\* Run of a session that had registered has just removed the session's key
C17_Witness ==
    \E s \in Sessions :
        /\ xcvr[s] = "FEATURES_RECEIVED"
        /\ mgr[s].pc = "removed"
        /\ PoolAt(pool, mgr[s].DPID, mgr[s].AuxID) = {}

\* C19: an ERROR message from the switch ends the session exactly when it
\* arrives during the handshake (before READY); after the handshake it is only
\* logged: the session goes on and the managers and the registry are as before.
C19_ErrorFatalInHandshake ==
    [][\A s \in Sessions :
           HandleError(s) =>
               IF xcvr[s] = "READY"
               THEN mgr' = mgr /\ pool' = pool /\ xcvr' = xcvr
               ELSE mgr'[s].pc = "returned"]_vars

\* C21: a session that ends before it has completed the feature exchange
\* (it never registered, its DPID is still 0) leaves the registry as it is and
\* cancels no other session: the statements of Run after the I/O loop change
\* neither the registry nor another session, also when a session is registered
\* under DPID 0.
C21_UnregisteredExitIsSilent ==
    [][\A s \in Sessions :
           ((RunRemove(s) \/ RunCancelAux(s)) /\ xcvr[s] # "FEATURES_RECEIVED")
               => /\ pool' = pool
                  /\ \A t \in Sessions \ {s} : mgr'[t] = mgr[t]]_vars

\* C22: a send path called from another task while Run ends the session
\* either hands its message to the transceiver or returns the Disconnected
\* error; it never passes the nil test and then uses a transceiver reference
\* that Run has reset in between.
C22_NoUseAfterReset ==
    hcall.handler \in SendPaths => hcall.result \in {"Disconnected", "nil", "error"}

\* C23: in every reachable state a session that has processed its
\* FEATURES_REPLY and whose I/O loop has not returned is the session the
\* registry holds under its (DPID, AuxID); so when two connections report the
\* same (DPID, AuxID), the end of one never leaves the other running and out
\* of the registry.
C23_RunningIsRegistered ==
    \A s \in Sessions :
        (xcvr[s] = "FEATURES_RECEIVED" /\ mgr[s].pc = "io")
            => PoolAt(pool, mgr[s].DPID, mgr[s].AuxID)
                   = {PoolEntry(mgr[s].DPID, mgr[s].AuxID, s)}

============================================================================
